---- MODULE Spec2Model ----
(***************************************************************************)
(* NCRP complaint automation: the strict PDF field extractor               *)
(* (processors/strict_pdf_processor.py), the master workbook builder       *)
(* (processors/excel_builder.py) and the upload handler (app.py).          *)
(*                                                                         *)
(* A Python str is a sequence of tokens.  A token is a TLA+ string that    *)
(* stands for one character (":", " ", "\n", "1", ...) or for one run of   *)
(* characters that is never split by the code (the text of a label, a      *)
(* word of a value).  The empty str is << >>.                              *)
(***************************************************************************)
EXTENDS Integers, Sequences, FiniteSets, TLC

VARIABLES
    text,          \* SpecLabel: the Combined Text handed to _extract_after_label
    label_patterns,\* SpecLabel: the label pattern list handed to it
    extracted,     \* SpecLabel: its return value (Unset before the call)
    pdf_pages,     \* SpecExtract: pdf.pages, what extract_text() gives for each page
    cb_given,      \* SpecExtract: an update_progress callback was passed
    cb_raises_at,  \* SpecExtract: the page at which the callback raises (0: never)
    pc,            \* SpecExtract: where process_pdf_strict stands
    idx,           \* SpecExtract: the loop variable idx (pages read so far)
    total_pages,   \* SpecExtract: total_pages
    page_texts,    \* SpecExtract: page_texts
    calls,         \* SpecExtract: the calls made to the callback, in order
    complaint,     \* SpecExtract: the returned dictionary (empty before the return)
    raw,           \* SpecAmount: the raw amount string
    cleaned,       \* SpecAmount: _cleanup_amount(raw) (Unset before the call)
    amount_lost,   \* SpecAmount: Amount_Lost of the record extracted from a page
                   \*             reading "Amount Lost: <raw>" (Unset before)
    complaints,    \* SpecReport: the list handed to build_master_workbook
    workbook,      \* SpecReport: the data rows of the sheets it saved (NoWorkbook before)
    COMPLAINTS,    \* SpecApp: the in-memory list of complaints (app.py line 29)
    PROGRESS,      \* SpecApp: the progress dictionary (app.py lines 32-38)
    artifact,      \* SpecApp: output/ncrp_master.xlsx (NoWorkbook while absent)
    req            \* SpecApp: per request thread, where upload_file stands and its locals

labelVars == <<text, label_patterns, extracted>>
extractVars == <<pdf_pages, cb_given, cb_raises_at, pc, idx, total_pages, page_texts,
                 calls, complaint>>
amountVars == <<raw, cleaned, amount_lost>>
reportVars == <<complaints, workbook>>
appVars == <<COMPLAINTS, PROGRESS, artifact, req>>

\* What the actions of each specification leave alone.
othersLabel == <<extractVars, amountVars, reportVars, appVars>>
othersExtract == <<labelVars, amountVars, reportVars, appVars>>
othersAmount == <<labelVars, extractVars, reportVars, appVars>>
othersReport == <<labelVars, extractVars, amountVars, appVars>>
othersApp == <<labelVars, extractVars, amountVars, reportVars>>
vars == <<text, label_patterns, extracted, pdf_pages, cb_given, cb_raises_at, pc, idx,
          total_pages, page_texts, calls, complaint, raw, cleaned, amount_lost,
          complaints, workbook, COMPLAINTS, PROGRESS, artifact, req>>

\* ---------------------------------------------------------------- bounds
MaxTextLen == 5
MaxPages == 3
MaxAmountLen == 4
MaxRecords == 3
MaxComplaints == 2

\* ------------------------------------------------------------ characters
NL == "\n"
SP == " "
COLON == ":"

\* A value no call has produced yet.
Unset == <<"#unset">>

\* Python's float('nan'), the null value of pandas.
NaN == <<"#nan">>

\* regex \s
IsSpace(c) == c \in {SP, NL}

\* regex . (without DOTALL): anything but a line break
IsDot(c) == c # NL

Min(S) == CHOOSE x \in S : \A y \in S : x <= y
Max(S) == CHOOSE x \in S : \A y \in S : x >= y

\* The part of s from index a to index b (empty when a > b).
Slice(s, a, b) == IF a > b THEN << >> ELSE SubSeq(s, a, b)

\* ----------------------------------------------------------- str methods
\* str.strip(): leading and trailing whitespace removed.
strip(s) ==
    LET keep == {i \in 1..Len(s) : ~IsSpace(s[i])}
    IN  IF keep = {} THEN << >> ELSE Slice(s, Min(keep), Max(keep))

\* value.split("\n")[0]
FirstLine(s) ==
    LET brk == {i \in 1..Len(s) : s[i] = NL}
    IN  IF brk = {} THEN s ELSE Slice(s, 1, Min(brk) - 1)

\* ------------------------------------------------------- regex matching
\* The label regex lbl matches text ending exactly at the end of token tok.
\* Each pattern is named by the label text it spells; a pattern that is a
\* tail of a longer label matches inside that longer label as well.
LabelMatches(lbl, tok) ==
    \/ tok = lbl
    \/ <<lbl, tok>> \in { <<"Status", "Current Status">>,
                          <<"Platform", "Bank/Platform">>,
                          <<"E-mail", "Email">> }

\* First index >= i that is past the whitespace run starting at i (\s* greedy).
SkipSpace(s, i) ==
    LET stop == {k \in i..Len(s) : ~IsSpace(s[k])}
    IN  IF stop = {} THEN Len(s) + 1 ELSE Min(stop)

\* (.+) started at index i: the rest of the line.
RestOfLine(s, i) ==
    LET brk == {k \in i..Len(s) : s[k] = NL}
    IN  IF brk = {} THEN Slice(s, i, Len(s)) ELSE Slice(s, i, Min(brk) - 1)

NoMatch == [found |-> FALSE, group |-> << >>]
Match(g) == [found |-> TRUE, group |-> g]

\* \s*(.+) from index i.  \s* is greedy and runs across line breaks; when the
\* whitespace run reaches the end of the text it gives characters back until
\* (.+) finds a character that is not a line break.
SpaceThenGroup(s, i) ==
    LET k == SkipSpace(s, i)
        back == {j \in i..Len(s) : IsDot(s[j])}
    IN  IF k <= Len(s) THEN Match(RestOfLine(s, k))
        ELSE IF back # {} THEN Match(RestOfLine(s, Max(back)))
        ELSE NoMatch

\* rf"{lbl}\s*:\s*(.+)" tried with the label at token i.
InlineAt(s, lbl, i) ==
    IF ~LabelMatches(lbl, s[i]) THEN NoMatch
    ELSE LET c == SkipSpace(s, i + 1)
         IN  IF c <= Len(s) /\ s[c] = COLON
             THEN SpaceThenGroup(s, c + 1)
             ELSE NoMatch

\* rf"{lbl}\s*\n\s*(.+)" tried with the label at token i.  The first \s* is
\* greedy, so \n is the last line break of the whitespace run that lets the
\* rest match.
NextlineAt(s, lbl, i) ==
    IF ~LabelMatches(lbl, s[i]) THEN NoMatch
    ELSE LET k == SkipSpace(s, i + 1)
             brk == {p \in (i + 1)..(k - 1) : s[p] = NL}
             ok == {p \in brk : SpaceThenGroup(s, p + 1).found}
         IN  IF ok = {} THEN NoMatch
             ELSE SpaceThenGroup(s, Max(ok) + 1)

\* re.search: the match at the leftmost position where the pattern matches.
SearchInline(s, lbl) ==
    LET hits == {i \in 1..Len(s) : InlineAt(s, lbl, i).found}
    IN  IF hits = {} THEN NoMatch ELSE InlineAt(s, lbl, Min(hits))

SearchNextline(s, lbl) ==
    LET hits == {i \in 1..Len(s) : NextlineAt(s, lbl, i).found}
    IN  IF hits = {} THEN NoMatch ELSE NextlineAt(s, lbl, Min(hits))

\* Lines 26-30: the inline shape, and the next-line shape only if it fails.
SearchLabel(s, lbl) ==
    LET m == SearchInline(s, lbl)
    IN  IF m.found THEN m ELSE SearchNextline(s, lbl)

\* Lines 33-36: the value taken from a match.
MatchValue(m) ==
    LET value == strip(m.group)
    IN  IF \E i \in 1..Len(value) : value[i] = NL
        THEN strip(FirstLine(value))
        ELSE value

\* Index of the label of the match SearchLabel returns (0 when none).
MatchStart(s, lbl) ==
    LET inl == {i \in 1..Len(s) : InlineAt(s, lbl, i).found}
        nxt == {i \in 1..Len(s) : NextlineAt(s, lbl, i).found}
    IN  IF inl # {} THEN Min(inl) ELSE IF nxt # {} THEN Min(nxt) ELSE 0

\* Mutant: the patterns joined into one alternation, so that the pattern whose
\* match lies leftmost in the text wins instead of the first of the list.
extract_after_label_leftmost(s, pats) ==
    LET hit == {k \in 1..Len(pats) : SearchLabel(s, pats[k]).found}
    IN  IF hit = {} THEN << >>
        ELSE LET best == CHOOSE k \in hit :
                            \A j \in hit : MatchStart(s, pats[k]) <= MatchStart(s, pats[j])
             IN  MatchValue(SearchLabel(s, pats[best]))

\* _extract_after_label(text, label_patterns): the loop of lines 24-37.
RECURSIVE extract_after_label(_, _)
extract_after_label(s, pats) ==
    IF pats = << >> THEN << >>
    ELSE LET m == SearchLabel(s, Head(pats))
         IN  IF m.found THEN MatchValue(m)
             ELSE extract_after_label(s, Tail(pats))

\* ------------------------------------------------------- _cleanup_amount
IsDigit(c) == c \in {"0", "1", "2", "3", "4", "5", "6", "7", "8", "9"}

\* Mutant: the second pass (line 46) left out, so the commas stay.
cleanup_amount_keeps_commas(r) ==
    LET Kept(c) == IsDigit(c) \/ c \in {".", ","}
    IN  IF r = << >> THEN << >> ELSE SelectSeq(r, Kept)

\* _cleanup_amount(raw), lines 40-47: re.sub(r"[^0-9.,]", "", raw), then
\* .replace(",", "").
cleanup_amount(r) ==
    LET Kept(c) == IsDigit(c) \/ c \in {".", ","}
        NotComma(c) == c # ","
    IN  IF r = << >> THEN << >>
        ELSE SelectSeq(SelectSeq(r, Kept), NotComma)

\* ---------------------------------------------------- process_pdf_strict
\* The keys of the dictionary process_pdf_strict returns (lines 70-82, 142-154).
ComplaintKeys ==
    {"Complaint_ID", "Complaint_Date_Time", "Complainant_Name", "Mobile_Number",
     "Email", "District", "Police_Station", "Type_of_Cybercrime",
     "Platform_Involved", "Amount_Lost", "Current_Status"}

\* The label pattern list of each field (lines 96-139).
FieldPatterns(key) ==
    CASE key = "Complaint_ID" -> <<"Acknowledgement Number", "Complaint ID", "Ack No">>
      [] key = "Complaint_Date_Time" ->
            <<"Complaint Date/Time", "Complaint Date", "Registration Date">>
      [] key = "Complainant_Name" -> <<"Complainant Name", "Name of Complainant">>
      [] key = "Mobile_Number" -> <<"Mobile Number", "Mobile No", "Phone Number">>
      [] key = "Email" -> <<"Email", "E-mail">>
      [] key = "District" -> <<"District">>
      [] key = "Police_Station" -> <<"Police Station", "PS Name">>
      [] key = "Type_of_Cybercrime" -> <<"Type of Cyber Crime", "Category of complaint">>
      [] key = "Platform_Involved" -> <<"Platform involved", "Bank/Platform", "Platform">>
      [] key = "Amount_Lost" -> <<"Amount Lost", "Total Fraudulent Amount", "Loss Amount">>
      [] key = "Current_Status" -> <<"Status", "Current Status">>

\* "\n".join(page_texts)
RECURSIVE JoinLines(_)
JoinLines(texts) ==
    IF texts = << >> THEN << >>
    ELSE IF Len(texts) = 1 THEN texts[1]
    ELSE texts[1] \o <<NL>> \o JoinLines(Tail(texts))

\* Lines 70-82: the dictionary returned for a document without pages.
EmptyComplaint == [key \in ComplaintKeys |-> << >>]

\* Lines 96-154: the fields extracted from the combined text.
ExtractComplaint(combined_text) ==
    [key \in ComplaintKeys |->
        IF key = "Amount_Lost"
        THEN cleanup_amount(extract_after_label(combined_text, FieldPatterns(key)))
        ELSE extract_after_label(combined_text, FieldPatterns(key))]

\* What page.extract_text() returned for a page without text.
NoneText == <<"#none">>

\* Line 86: page.extract_text() or ""
PageText(page) == IF page = NoneText \/ page = << >> THEN << >> ELSE page

\* Mutant: enumerate without start=1, the callback is given the 0-based index.
ProgressArgsZeroBased(i, total) == <<i - 1, total>>

\* Line 90: the arguments of update_progress(idx, total_pages).
ProgressArgs(i, total) == <<i, total>>

\* The pages documents are made of.
PageSamples ==
    { <<"Complaint ID", COLON, SP, "A", NL, "Mobile Number", NL, "1">>,
      <<"Amount Lost", COLON, SP, "x", "1", ",", "2", ".", "5", SP, "x", NL,
        "Current Status", COLON, "B">>,
      <<"Acknowledgement Number", COLON, "B">>,
      <<"District">>,
      <<"A">>,
      NoneText }

InitExtractIdle ==
    /\ pdf_pages = << >>
    /\ cb_given = FALSE
    /\ cb_raises_at = 0
    /\ pc = "idle"
    /\ idx = 0
    /\ total_pages = 0
    /\ page_texts = << >>
    /\ calls = << >>
    /\ complaint = << >>

InitLabelIdle ==
    /\ text = << >>
    /\ label_patterns = << >>
    /\ extracted = Unset

InitAmountIdle ==
    /\ raw = << >>
    /\ cleaned = Unset
    /\ amount_lost = Unset

\* No workbook has been saved.
NoWorkbook ==
    [Master |-> << >>, By_Crime_Type |-> << >>, By_Platform |-> << >>,
     Possible_Duplicates |-> << >>, saved |-> FALSE]

InitReportIdle ==
    /\ complaints = << >>
    /\ workbook = NoWorkbook

\* The request threads of the server.
Workers == {"w1", "w2"}

\* The locals of a thread that is serving no request; status is the response
\* code of the last request it served (0: none yet).
IdleRequest(status) ==
    [pc |-> "idle", ext |-> "", readable |-> TRUE, content |-> << >>,
     complaints_data |-> << >>,
     k |-> 0, total |-> 0, df |-> << >>, status |-> status]

\* app.py lines 29 and 32-38: the module state after import.
InitAppState ==
    /\ COMPLAINTS = << >>
    /\ PROGRESS = [state |-> "idle", total_pages |-> 0, current_page |-> 0,
                   message |-> "", download_ready |-> FALSE]
    /\ artifact = NoWorkbook
    /\ req = [w \in Workers |-> IdleRequest(0)]

\* The parts a specification does not run stay as they are at import.
IdleButLabel == InitExtractIdle /\ InitAmountIdle /\ InitReportIdle /\ InitAppState
IdleButExtract == InitLabelIdle /\ InitAmountIdle /\ InitReportIdle /\ InitAppState
IdleButAmount == InitLabelIdle /\ InitExtractIdle /\ InitReportIdle /\ InitAppState
IdleButReport == InitLabelIdle /\ InitExtractIdle /\ InitAmountIdle /\ InitAppState
IdleButApp == InitLabelIdle /\ InitExtractIdle /\ InitAmountIdle /\ InitReportIdle

\* ------------------------------------------------- SpecLabel: the helper
\* The characters a Combined Text is drawn from.
TextAlphabet == {"Complaint ID", "Ack No", COLON, SP, NL, "A", "B"}

RECURSIVE SeqsUpTo(_, _)
SeqsUpTo(S, n) ==
    IF n = 0 THEN {<< >>}
    ELSE LET shorter == SeqsUpTo(S, n - 1)
         IN  shorter \cup {Append(s, c) : s \in {t \in shorter : Len(t) = n - 1}, c \in S}

PatternLists == { <<"Complaint ID", "Ack No">>, <<"Ack No", "Complaint ID">>,
                  <<"Complaint ID">> }

InitLabel ==
    /\ text \in SeqsUpTo(TextAlphabet, MaxTextLen)
    /\ label_patterns \in PatternLists
    /\ extracted = Unset
    /\ IdleButLabel

CallExtractAfterLabel ==
    /\ extracted = Unset
    /\ extracted' = extract_after_label(text, label_patterns)
    /\ UNCHANGED <<text, label_patterns>>
    /\ UNCHANGED othersLabel

NextLabel == CallExtractAfterLabel

SpecLabel == InitLabel /\ [][NextLabel]_vars

\* ------------------------------------ SpecExtract: process_pdf_strict
InitExtract ==
    /\ pdf_pages \in SeqsUpTo(PageSamples, MaxPages)
    /\ cb_given \in BOOLEAN
    /\ cb_raises_at \in 0..MaxPages
    /\ cb_given \/ cb_raises_at = 0
    /\ pc = "open"
    /\ idx = 0
    /\ total_pages = 0
    /\ page_texts = << >>
    /\ calls = << >>
    /\ complaint = << >>
    /\ IdleButExtract

\* Lines 66-82: the document is opened; without pages the empty dictionary is
\* returned at once.
OpenPdf ==
    /\ pc = "open"
    /\ total_pages' = Len(pdf_pages)
    /\ IF Len(pdf_pages) = 0
       THEN /\ complaint' = EmptyComplaint
            /\ pc' = "returned"
       ELSE /\ complaint' = complaint
            /\ pc' = "loop"
    /\ UNCHANGED <<pdf_pages, cb_given, cb_raises_at, idx, page_texts, calls>>
    /\ UNCHANGED othersExtract

\* Lines 85-90, one iteration whose callback (if any) returns.
ReadPage ==
    /\ pc = "loop"
    /\ idx < total_pages
    /\ cb_raises_at # idx + 1
    /\ idx' = idx + 1
    /\ page_texts' = Append(page_texts, PageText(pdf_pages[idx + 1]))
    /\ calls' = IF cb_given THEN Append(calls, ProgressArgs(idx + 1, total_pages))
                ELSE calls
    /\ UNCHANGED <<pdf_pages, cb_given, cb_raises_at, pc, total_pages, complaint>>
    /\ UNCHANGED othersExtract

\* Lines 85-90, one iteration whose callback raises: nothing catches the
\* exception, it leaves the loop, the with block and the function.
ReadPageCallbackRaises ==
    /\ pc = "loop"
    /\ idx < total_pages
    /\ cb_given
    /\ cb_raises_at = idx + 1
    /\ idx' = idx + 1
    /\ page_texts' = Append(page_texts, PageText(pdf_pages[idx + 1]))
    /\ calls' = Append(calls, ProgressArgs(idx + 1, total_pages))
    /\ pc' = "raised"
    /\ UNCHANGED <<pdf_pages, cb_given, cb_raises_at, total_pages, complaint>>
    /\ UNCHANGED othersExtract

\* Lines 92-156: after the loop the text is combined, the fields extracted
\* and the dictionary returned.
ExtractFields ==
    /\ pc = "loop"
    /\ idx = total_pages
    /\ complaint' = ExtractComplaint(JoinLines(page_texts))
    /\ pc' = "returned"
    /\ UNCHANGED <<pdf_pages, cb_given, cb_raises_at, idx, total_pages, page_texts, calls>>
    /\ UNCHANGED othersExtract

NextExtract == OpenPdf \/ ReadPage \/ ReadPageCallbackRaises \/ ExtractFields

SpecExtract == InitExtract /\ [][NextExtract]_vars

\* ------------------------------------------- SpecAmount: _cleanup_amount
\* The currency sign.
RUPEE == "Rs"

AmountAlphabet == {"1", "5", ".", ",", SP, RUPEE}

\* "Rs1,23,456.50 approx"
ExampleAmount ==
    <<RUPEE, "1", ",", "2", "3", ",", "4", "5", "6", ".", "5", "0", SP,
      "a", "p", "p", "r", "o", "x">>

InitAmount ==
    /\ raw \in SeqsUpTo(AmountAlphabet, MaxAmountLen) \cup {ExampleAmount}
    /\ cleaned = Unset
    /\ amount_lost = Unset
    /\ IdleButAmount

CallCleanupAmount ==
    /\ cleaned = Unset
    /\ cleaned' = cleanup_amount(raw)
    /\ UNCHANGED <<raw, amount_lost>>
    /\ UNCHANGED othersAmount

\* Lines 92-156 on the text of a page that reads "Amount Lost: <raw>".
ExtractAmountLost ==
    /\ amount_lost = Unset
    /\ amount_lost' =
          ExtractComplaint(JoinLines(<< <<"Amount Lost", COLON, SP>> \o raw >>))["Amount_Lost"]
    /\ UNCHANGED <<raw, cleaned>>
    /\ UNCHANGED othersAmount

NextAmount == CallCleanupAmount \/ ExtractAmountLost

SpecAmount == InitAmount /\ [][NextAmount]_vars

\* ---------------------------------------------------------------- C6
\* The digits and dots of s, in their order.
RECURSIVE DigitsAndDots(_)
DigitsAndDots(s) ==
    IF s = << >> THEN << >>
    ELSE IF IsDigit(Head(s)) \/ Head(s) = "."
         THEN <<Head(s)>> \o DigitsAndDots(Tail(s))
         ELSE DigitsAndDots(Tail(s))

C1_ProgressOncePerPage ==
    /\ cb_given => calls = [k \in 1..idx |-> <<k, Len(pdf_pages)>>]
    /\ ~cb_given => calls = << >>
    /\ pc = "returned" =>
          /\ cb_given => Len(calls) = Len(pdf_pages)
          /\ DOMAIN complaint = ComplaintKeys
          /\ Cardinality(DOMAIN complaint) = 11

\* A document of several pages has been read to its end with a callback.
C1_Witness ==
    /\ pc = "returned"
    /\ cb_given
    /\ Len(pdf_pages) >= 2
    /\ Len(calls) = Len(pdf_pages)
    /\ calls[Len(calls)] = <<Len(pdf_pages), Len(pdf_pages)>>
    /\ complaint["Complaint_ID"] # << >>

\* ---------------------------------------------------------------- C2
\* C2: a callback that raises does not abort the extraction: once
\* process_pdf_strict has ended, every page has been read and the dictionary
\* extracted from all the pages has been returned.
C2_CallbackFailureIsolated ==
    pc \in {"returned", "raised"} =>
        /\ pc = "returned"
        /\ Len(page_texts) = Len(pdf_pages)
        /\ complaint = IF Len(pdf_pages) = 0 THEN EmptyComplaint
                       ELSE ExtractComplaint(
                                JoinLines([k \in 1..Len(pdf_pages) |-> PageText(pdf_pages[k])]))

\* ---------------------------------------------------------------- C3
\* Pattern lbl matches somewhere in s, by the inline or the next-line shape.
MatchesAnywhere(s, lbl) ==
    \E i \in 1..Len(s) : InlineAt(s, lbl, i).found \/ NextlineAt(s, lbl, i).found

\* C3: the value returned by _extract_after_label is the value of the first
\* pattern of the list that matches anywhere in the text by either shape,
\* wherever the matches of later patterns lie; with no matching pattern it is
\* the empty string.
C3_FirstPatternWins ==
    extracted # Unset =>
        LET hits == {k \in 1..Len(label_patterns) :
                        MatchesAnywhere(text, label_patterns[k])}
        IN  IF hits = {} THEN extracted = << >>
            ELSE extracted = MatchValue(SearchLabel(text, label_patterns[Min(hits)]))

\* Both patterns match, the second of the list earlier in the text than the
\* first and with another value, and the first one's value is returned.
C3_Witness ==
    /\ extracted # Unset
    /\ Len(label_patterns) = 2
    /\ MatchesAnywhere(text, label_patterns[1])
    /\ MatchesAnywhere(text, label_patterns[2])
    /\ MatchStart(text, label_patterns[2]) < MatchStart(text, label_patterns[1])
    /\ extracted # MatchValue(SearchLabel(text, label_patterns[2]))
    /\ extracted = MatchValue(SearchLabel(text, label_patterns[1]))

\* ---------------------------------------------------------------- C4
\* Number of the line that index j of s lies on.
LineOf(s, j) == Cardinality({p \in 1..(j - 1) : s[p] = NL})

\* C4: for a single label pattern the value holds no line break and is the
\* (stripped) remainder of the label's own line or of the line immediately
\* following the label, never of a line further away.
C4_ValueFromOwnOrNextLine ==
    (extracted # Unset /\ Len(label_patterns) = 1) =>
        /\ \A i \in 1..Len(extracted) : extracted[i] # NL
        /\ extracted # << >> =>
              \E i \in 1..Len(text), j \in 1..Len(text) :
                  /\ LabelMatches(label_patterns[1], text[i])
                  /\ i < j
                  /\ LineOf(text, j) - LineOf(text, i) <= 1
                  /\ extracted = strip(RestOfLine(text, j))

\* ======================================================= excel_builder.py
\* REQUIRED_COLUMNS, lines 16-28.
REQUIRED_COLUMNS ==
    <<"Complaint_ID", "Complaint_Date_Time", "Complainant_Name", "Mobile_Number",
      "Email", "District", "Police_Station", "Type_of_Cybercrime",
      "Platform_Involved", "Amount_Lost", "Current_Status">>

RequiredSet == {REQUIRED_COLUMNS[i] : i \in 1..Len(REQUIRED_COLUMNS)}

\* Position of a column in a sheet row.
ColIndex(col) == CHOOSE i \in 1..Len(REQUIRED_COLUMNS) : REQUIRED_COLUMNS[i] = col

\* ---------------------------------------------------- order of cell values
\* The tokens of the values used, in the order Python compares str.
TokenOrder == <<"1", "2", "3", "A", "B", "Bank", "Phishing", "UPI_Fraud", "nan">>

TokenRank(t) == CHOOSE i \in 1..Len(TokenOrder) : TokenOrder[i] = t

\* a < b for two str.
RECURSIVE StrLess(_, _)
StrLess(a, b) ==
    IF b = << >> THEN FALSE
    ELSE IF a = << >> THEN TRUE
    ELSE IF Head(a) = Head(b) THEN StrLess(Tail(a), Tail(b))
    ELSE TokenRank(Head(a)) < TokenRank(Head(b))

\* The order sort_values puts cell values in: ascending, NaN last.
ValueLess(a, b) ==
    IF a = NaN THEN FALSE
    ELSE IF b = NaN THEN TRUE
    ELSE StrLess(a, b)

\* Row r comes strictly before row q in the order of the columns by.
RECURSIVE RowLess(_, _, _)
RowLess(r, q, by) ==
    IF by = << >> THEN FALSE
    ELSE IF r[Head(by)] = q[Head(by)] THEN RowLess(r, q, Tail(by))
    ELSE ValueLess(r[Head(by)], q[Head(by)])

\* ------------------------------------------------------------ DataFrame
\* pd.DataFrame(complaints), line 87: the columns are the keys that occur in
\* some record; a record without a key has NaN in that column.
DataFrame(records) ==
    LET cols == UNION {DOMAIN records[i] : i \in 1..Len(records)}
    IN  [columns |-> cols,
         rows |-> [i \in 1..Len(records) |->
                     [c \in cols |-> IF c \in DOMAIN records[i] THEN records[i][c]
                                     ELSE NaN]]]

\* _ensure_columns(df), lines 31-36: a column no record has is added with '';
\* the frame is cut down to REQUIRED_COLUMNS.
ensure_columns(df) ==
    [columns |-> RequiredSet,
     rows |-> [i \in 1..Len(df.rows) |->
                 [c \in RequiredSet |->
                     IF c \in df.columns THEN df.rows[i][c] ELSE << >>]]]

\* A row of a frame as the list of cells appended to a sheet.
SheetRow(row) == [i \in 1..Len(REQUIRED_COLUMNS) |-> row[REQUIRED_COLUMNS[i]]]

\* Mutant: duplicate rows dropped before the Master sheet is written.
MasterRowsDeduplicated(df) ==
    LET first == {i \in 1..Len(df.rows) : \A j \in 1..(i - 1) : df.rows[j] # df.rows[i]}
        F[i \in 0..Len(df.rows)] ==
            IF i = 0 THEN << >>
            ELSE IF i \in first THEN Append(F[i - 1], SheetRow(df.rows[i]))
            ELSE F[i - 1]
    IN  F[Len(df.rows)]

\* df.to_excel(output_path, index=False, sheet_name='Master'), line 91: the
\* rows of the frame in their order; a NaN cell is written empty (na_rep='').
MasterRows(df) ==
    [i \in 1..Len(df.rows) |->
        [k \in 1..Len(REQUIRED_COLUMNS) |->
            LET v == df.rows[i][REQUIRED_COLUMNS[k]]
            IN  IF v = NaN THEN << >> ELSE v]]

\* ---------------------------------------------------------- sort_values
\* row put into a sorted list behind every row that is not greater: the sort
\* of several columns is stable.
InsertStable(row, sorted, by) ==
    LET greater == {k \in 1..Len(sorted) : RowLess(row, sorted[k], by)}
        at == IF greater = {} THEN Len(sorted) + 1 ELSE Min(greater)
    IN  Slice(sorted, 1, at - 1) \o <<row>> \o Slice(sorted, at, Len(sorted))

\* Mutant: sorted by the grouping column alone.
sort_values_first_key(rows, by) ==
    LET F[i \in 0..Len(rows)] ==
            IF i = 0 THEN << >> ELSE InsertStable(rows[i], F[i - 1], <<Head(by)>>)
    IN  F[Len(rows)]

\* df.sort_values(by=[...]), line 48.
sort_values(rows, by) ==
    LET F[i \in 0..Len(rows)] ==
            IF i = 0 THEN << >> ELSE InsertStable(rows[i], F[i - 1], by)
    IN  F[Len(rows)]

\* _grouped_sheet(wb, name, df, by), lines 39-50: the data rows of the sheet.
grouped_sheet(df, by) ==
    LET df_sorted == sort_values(df.rows, <<by, "Complaint_ID">>)
    IN  [i \in 1..Len(df_sorted) |-> SheetRow(df_sorted[i])]

\* ------------------------------------------------------- _duplicates_sheet
\* .astype(str): NaN becomes the str 'nan'.
astype_str(v) == IF v = NaN THEN <<"nan">> ELSE v

\* df[df[col].astype(str).str.len() > 0], lines 62 and 66.
NonEmptyRows(rows, col) ==
    LET Keep(r) == Len(astype_str(r[col])) > 0
    IN  SelectSeq(rows, Keep)

\* rows[rows[col].duplicated(keep=False)], lines 63 and 67: the rows whose
\* value occurs in another row too (NaN counts as equal to NaN).
DuplicatedRows(rows, col) ==
    LET dup == {i \in 1..Len(rows) : \E j \in 1..Len(rows) : j # i /\ rows[j][col] = rows[i][col]}
        F[i \in 0..Len(rows)] ==
            IF i = 0 THEN << >>
            ELSE IF i \in dup THEN Append(F[i - 1], rows[i]) ELSE F[i - 1]
    IN  F[Len(rows)]

\* A row of the Possible_Duplicates sheet: the cells and Duplicate_Reason.
DupRow(row, reason) == Append(SheetRow(row), reason)

DupIdReason == <<"Duplicate Complaint_ID">>
DupMobileReason == <<"Duplicate Mobile_Number">>

\* Mutant: the two passes merged with the rows of a record kept once.
duplicates_sheet_merged(df) ==
    LET dup_id == DuplicatedRows(NonEmptyRows(df.rows, "Complaint_ID"), "Complaint_ID")
        dup_mobile == DuplicatedRows(NonEmptyRows(df.rows, "Mobile_Number"), "Mobile_Number")
        NotInId(r) == \A k \in 1..Len(dup_id) : dup_id[k] # r
        rest == SelectSeq(dup_mobile, NotInId)
    IN  [i \in 1..Len(dup_id) |-> DupRow(dup_id[i], DupIdReason)]
        \o [i \in 1..Len(rest) |-> DupRow(rest[i], DupMobileReason)]

\* _duplicates_sheet(wb, df), lines 53-73: the data rows of the sheet.
duplicates_sheet(df) ==
    LET dup_id == DuplicatedRows(NonEmptyRows(df.rows, "Complaint_ID"), "Complaint_ID")
        dup_mobile == DuplicatedRows(NonEmptyRows(df.rows, "Mobile_Number"), "Mobile_Number")
    IN  [i \in 1..Len(dup_id) |-> DupRow(dup_id[i], DupIdReason)]
        \o [i \in 1..Len(dup_mobile) |-> DupRow(dup_mobile[i], DupMobileReason)]

\* build_master_workbook(complaints, output_path), lines 76-106: the data rows
\* of the four sheets of the workbook saved.
build_master_workbook(records) ==
    LET df == ensure_columns(DataFrame(records))
    IN  [Master |-> MasterRows(df),
         By_Crime_Type |-> grouped_sheet(df, "Type_of_Cybercrime"),
         By_Platform |-> grouped_sheet(df, "Platform_Involved"),
         Possible_Duplicates |-> duplicates_sheet(df),
         saved |-> TRUE]

\* ---------------------------------------- SpecReport: build_master_workbook
\* A record with the eleven keys; the fields not named are empty.
Canonical(id, mobile, crime, platform) ==
    [c \in RequiredSet |->
        CASE c = "Complaint_ID" -> id
          [] c = "Mobile_Number" -> mobile
          [] c = "Type_of_Cybercrime" -> crime
          [] c = "Platform_Involved" -> platform
          [] OTHER -> << >>]

\* record without the keys of the set gone.
Without(record, gone) == [c \in (DOMAIN record) \ gone |-> record[c]]

\* record with one more key.
WithKey(record, key, value) ==
    [c \in (DOMAIN record) \cup {key} |-> IF c = key THEN value ELSE record[c]]

\* The records the lists handed to build_master_workbook are made of.
RecordSamples ==
    { Canonical(<<"A">>, <<"1">>, <<"Phishing">>, <<"Bank">>),
      Canonical(<<"A">>, <<"2">>, <<"Phishing">>, << >>),
      Canonical(<<"B">>, <<"2">>, <<"UPI_Fraud">>, <<"Bank">>),
      Canonical(<< >>, << >>, << >>, << >>),
      Canonical(<<"2">>, << >>, <<"Phishing">>, <<"Bank">>),
      Canonical(<<"1">>, << >>, <<"Phishing">>, << >>),
      Canonical(<<"3">>, << >>, <<"UPI_Fraud">>, << >>),
      Without(Canonical(<< >>, <<"1">>, <<"Phishing">>, << >>), {"Complaint_ID"}),
      WithKey(Without(Canonical(<< >>, <<"3">>, << >>, <<"Bank">>),
                      {"Complaint_ID", "District", "Email", "Type_of_Cybercrime"}),
              "Remarks", <<"A">>) }

InitReport ==
    /\ complaints \in SeqsUpTo(RecordSamples, MaxRecords)
    /\ workbook = NoWorkbook
    /\ IdleButReport

BuildMasterWorkbook ==
    /\ ~workbook.saved
    /\ workbook' = build_master_workbook(complaints)
    /\ UNCHANGED complaints
    /\ UNCHANGED othersReport

NextReport == BuildMasterWorkbook

SpecReport == InitReport /\ [][NextReport]_vars

\* ------------------------------------------------- reading the sheets
\* A sheet row shows a record: it holds the record's value in the column of
\* every canonical key the record carries.
Represents(sheet_row, record) ==
    \A c \in RequiredSet \cap DOMAIN record : sheet_row[ColIndex(c)] = record[c]

\* The k-th smallest member of a set of numbers.
Nth(S, k) == CHOOSE x \in S : Cardinality({y \in S : y < x}) = k - 1

\* The records carrying a non-empty value for col that another record
\* carries too.
SharedNonEmpty(col) ==
    {i \in 1..Len(complaints) :
        /\ col \in DOMAIN complaints[i]
        /\ complaints[i][col] # << >>
        /\ \E j \in 1..Len(complaints) :
              /\ j # i
              /\ col \in DOMAIN complaints[j]
              /\ complaints[j][col] = complaints[i][col]}

\* The data rows of Possible_Duplicates are the records of A, in input order,
\* with the Complaint_ID reason, followed by the records of B, in input
\* order, with the Mobile_Number reason.
DuplicatesAre(A, B) ==
    LET rows == workbook.Possible_Duplicates
        reason == Len(REQUIRED_COLUMNS) + 1
    IN  /\ Len(rows) = Cardinality(A) + Cardinality(B)
        /\ \A k \in 1..Cardinality(A) :
              /\ Represents(rows[k], complaints[Nth(A, k)])
              /\ rows[k][reason] = DupIdReason
        /\ \A k \in 1..Cardinality(B) :
              /\ Represents(rows[Cardinality(A) + k], complaints[Nth(B, k)])
              /\ rows[Cardinality(A) + k][reason] = DupMobileReason

\* ---------------------------------------------------------------- C7
\* C7: a record is listed with the Complaint_ID reason exactly if its
\* Complaint_ID is non-empty and another record has the same one, and with
\* the Mobile_Number reason exactly if its Mobile_Number is non-empty and
\* shared; records whose value is empty or missing are never listed for that
\* field.
C7_FlaggedIffSharedNonEmpty ==
    workbook.saved =>
        DuplicatesAre(SharedNonEmpty("Complaint_ID"), SharedNonEmpty("Mobile_Number"))

\* ---------------------------------------------------------------- C8
\* C8: the data rows of Possible_Duplicates are the Complaint_ID pass followed
\* by the Mobile_Number pass, each in input order and each holding, of the
\* records that carry the field, those with a shared non-empty value; nothing
\* is merged across the passes, so the rows number |Pass A| + |Pass B| and a
\* record of both passes is listed twice.
C8_PassAThenPassB ==
    workbook.saved =>
        \E A \in SUBSET (1..Len(complaints)), B \in SUBSET (1..Len(complaints)) :
            /\ DuplicatesAre(A, B)
            /\ {i \in A : "Complaint_ID" \in DOMAIN complaints[i]}
                  = SharedNonEmpty("Complaint_ID")
            /\ {i \in B : "Mobile_Number" \in DOMAIN complaints[i]}
                  = SharedNonEmpty("Mobile_Number")

\* Complaint_IDs [A, A, B] with Mobile_Numbers [1, 2, 2]: four rows, the
\* second record listed under both reasons.
C8_Witness ==
    /\ workbook.saved
    /\ complaints = << Canonical(<<"A">>, <<"1">>, <<"Phishing">>, <<"Bank">>),
                       Canonical(<<"A">>, <<"2">>, <<"Phishing">>, << >>),
                       Canonical(<<"B">>, <<"2">>, <<"UPI_Fraud">>, <<"Bank">>) >>
    /\ Len(workbook.Possible_Duplicates) = 4
    /\ Represents(workbook.Possible_Duplicates[2], complaints[2])
    /\ Represents(workbook.Possible_Duplicates[3], complaints[2])
    /\ workbook.Possible_Duplicates[2][12] = DupIdReason
    /\ workbook.Possible_Duplicates[3][12] = DupMobileReason

\* ---------------------------------------------------------------- C9
\* The one-to-one maps of 1..n onto itself.
Perms(n) == {f \in [1..n -> 1..n] : \A a, b \in 1..n : a # b => f[a] # f[b]}

\* Sheet row r comes strictly before sheet row q by the cells of the columns
\* cols (a cell without a value, NaN, after every str).
RECURSIVE CellsLess(_, _, _)
CellsLess(r, q, cols) ==
    IF cols = << >> THEN FALSE
    ELSE IF r[ColIndex(Head(cols))] = q[ColIndex(Head(cols))]
         THEN CellsLess(r, q, Tail(cols))
         ELSE ValueLess(r[ColIndex(Head(cols))], q[ColIndex(Head(cols))])

\* The sheet lists every record once, ascending by (by, Complaint_ID), records
\* equal in both in their input order.
GroupedSheetSorted(sheet, by) ==
    LET n == Len(complaints)
        key == <<by, "Complaint_ID">>
    IN  /\ Len(sheet) = n
        /\ \E p \in Perms(n) :
              /\ \A k \in 1..n : Represents(sheet[k], complaints[p[k]])
              /\ \A k \in 1..n, l \in 1..n :
                    k < l => \/ CellsLess(sheet[k], sheet[l], key)
                             \/ /\ ~CellsLess(sheet[l], sheet[k], key)
                                /\ p[k] < p[l]

\* C9: By_Crime_Type and By_Platform each list every input record exactly
\* once, also those with an empty grouping value, ascending by (grouping
\* value, Complaint_ID), with records equal in both keys in input order.
C9_GroupedSheetsStableSorted ==
    workbook.saved =>
        /\ GroupedSheetSorted(workbook.By_Crime_Type, "Type_of_Cybercrime")
        /\ GroupedSheetSorted(workbook.By_Platform, "Platform_Involved")

\* Crime types [Phishing, Phishing, UPI_Fraud] with Complaint_IDs [2, 1, 3]
\* come out as Phishing/1, Phishing/2, UPI_Fraud/3.
C9_Witness ==
    /\ workbook.saved
    /\ complaints = << Canonical(<<"2">>, << >>, <<"Phishing">>, <<"Bank">>),
                       Canonical(<<"1">>, << >>, <<"Phishing">>, << >>),
                       Canonical(<<"3">>, << >>, <<"UPI_Fraud">>, << >>) >>
    /\ [k \in 1..3 |-> workbook.By_Crime_Type[k][ColIndex("Complaint_ID")]]
          = << <<"1">>, <<"2">>, <<"3">> >>
    /\ [k \in 1..3 |-> workbook.By_Crime_Type[k][ColIndex("Type_of_Cybercrime")]]
          = << <<"Phishing">>, <<"Phishing">>, <<"UPI_Fraud">> >>

\* ---------------------------------------------------------------- C10
\* C10: the Master sheet has one row for each input record, in input order:
\* row i shows record i, whatever is equal to or listed as a duplicate of it.
C10_MasterInInputOrder ==
    workbook.saved =>
        /\ Len(workbook.Master) = Len(complaints)
        /\ \A i \in 1..Len(complaints) : Represents(workbook.Master[i], complaints[i])

\* A list with the same record twice and with Complaint_IDs out of order,
\* some of it listed in Possible_Duplicates, has been written.
C10_Witness ==
    /\ workbook.saved
    /\ Len(complaints) = 3
    /\ complaints[1] = complaints[3]
    /\ "Complaint_ID" \in DOMAIN complaints[2]
    /\ "Complaint_ID" \in DOMAIN complaints[1]
    /\ StrLess(complaints[2]["Complaint_ID"], complaints[1]["Complaint_ID"])
    /\ Len(workbook.Possible_Duplicates) > 0
    /\ Len(workbook.Master) = 3

\* ---------------------------------------------------------------- C11
\* The record with the canonical keys it lacks set to the empty value and
\* the keys outside the canonical eleven left out.
Coerced(record) ==
    [c \in RequiredSet |-> IF c \in DOMAIN record THEN record[c] ELSE << >>]

\* The canonical cells of a sheet row.
CanonicalCells(sheet_row) == Slice(sheet_row, 1, Len(REQUIRED_COLUMNS))

\* C11: in every sheet a row holds the eleven canonical columns in canonical
\* order (Possible_Duplicates one more, the reason), a key outside the eleven
\* shows nowhere, and a canonical key a record lacks is an empty cell of its
\* row, in Master, in both grouped sheets and in Possible_Duplicates, also
\* when other records of the input carry that key.
C11_MissingKeysEmptyEverywhere ==
    workbook.saved =>
        LET n == Len(complaints)
            want == [i \in 1..n |-> SheetRow(Coerced(complaints[i]))]
        IN  /\ workbook.Master = want
            /\ \A sheet \in {workbook.By_Crime_Type, workbook.By_Platform} :
                  /\ Len(sheet) = n
                  /\ \E p \in Perms(n) : \A k \in 1..n : sheet[k] = want[p[k]]
            /\ \A k \in 1..Len(workbook.Possible_Duplicates) :
                  /\ Len(workbook.Possible_Duplicates[k]) = Len(REQUIRED_COLUMNS) + 1
                  /\ \E i \in 1..n :
                        CanonicalCells(workbook.Possible_Duplicates[k]) = want[i]

\* ================================================================ app.py
\* str(value): the text of a cell; NaN gives 'nan'.
str(v) == IF v = NaN THEN <<"nan">> ELSE v

\* row.get(col, ''): the cell of the row, '' when the file has no such column.
RowGet(row, col) == IF col \in DOMAIN row THEN row[col] ELSE << >>

\* Lines 99-111 and 116-128: a row of a CSV or Excel file mapped to a
\* complaint; Amount_Lost is taken as it is, the others through str().strip().
MapRow(row) ==
    [c \in RequiredSet |->
        IF c = "Amount_Lost" THEN RowGet(row, c) ELSE strip(str(RowGet(row, c)))]

\* Lines 97-111: for _, row in df.iterrows(): complaints_data.append({...})
MapRows(rows) == [i \in 1..Len(rows) |-> MapRow(rows[i])]

\* A row of a tabular file: its cells by column; NaN is an empty cell.
FullRow ==
    [c \in RequiredSet |->
        CASE c = "Complaint_ID" -> <<"A">>
          [] c = "Mobile_Number" -> <<"1">>
          [] c = "Amount_Lost" -> <<"5">>
          [] OTHER -> <<"B">>]

RowWithEmptyCells ==
    [c \in RequiredSet |->
        CASE c = "Complaint_ID" -> <<"B">>
          [] c = "Mobile_Number" -> <<SP, "1", SP>>
          [] c = "Amount_Lost" -> NaN
          [] c = "Email" -> NaN
          [] OTHER -> <<"B">>]

RowOfFewColumns == [c \in {"Complaint_ID", "Mobile_Number"} |-> <<"A">>]

\* process_pdf_strict(filepath, update_progress) on a readable document, as
\* SpecExtract runs it with a callback that returns.
ProcessPdf(pages) ==
    IF Len(pages) = 0 THEN EmptyComplaint
    ELSE ExtractComplaint(JoinLines([k \in 1..Len(pages) |-> PageText(pages[k])]))

\* The files uploaded: extension, content (pages or rows) and whether the
\* content can be read (if not, pdfplumber.open, pd.read_csv or pd.read_excel
\* raises).
PdfUploads ==
    { [ext |-> "pdf", readable |-> TRUE, content |-> << >>],
      [ext |-> "pdf", readable |-> TRUE, content |->
          << <<"Complaint ID", COLON, SP, "A", NL, "Mobile Number", NL, "1">> >>],
      [ext |-> "pdf", readable |-> TRUE, content |->
          << <<"Amount Lost", COLON, SP, RUPEE, "1", ",", "5">>,
             <<"Acknowledgement Number", COLON, "B">> >>],
      [ext |-> "pdf", readable |-> FALSE, content |-> << >>] }

TabularUploads ==
    { [ext |-> "csv", readable |-> TRUE, content |-> <<FullRow>>],
      [ext |-> "csv", readable |-> TRUE, content |-> <<RowWithEmptyCells>>],
      [ext |-> "csv", readable |-> TRUE, content |-> << >>],
      [ext |-> "csv", readable |-> FALSE, content |-> << >>],
      [ext |-> "xlsx", readable |-> TRUE, content |-> <<RowOfFewColumns, FullRow>>] }

\* Requests answered 400 at lines 58-70: no file part, an empty file name, an
\* extension that is not allowed.
RejectedUploads == {"no file", "no name", "txt"}

\* The number of complaints a file yields.
Yield(file) ==
    IF ~file.readable THEN 0
    ELSE IF file.ext = "pdf" THEN 1 ELSE Len(file.content)

\* The complaints the requests under way may still append.
Pending ==
    LET W == {w \in Workers : req[w].pc \notin {"idle", "build", "write", "save", "done"}}
        F[S \in SUBSET W] ==
            IF S = {} THEN 0
            ELSE LET w == CHOOSE x \in S : TRUE
                 IN  (IF req[w].pc = "append" THEN Len(req[w].complaints_data) - req[w].k
                      ELSE Yield(req[w]))
                     + F[S \ {w}]
    IN  F[W]

InitApp ==
    /\ InitAppState
    /\ IdleButApp

\* Lines 58-70: the request is refused with 400; no state is touched.
RejectUpload(w) ==
    /\ req[w].pc = "idle"
    /\ \E why \in RejectedUploads :
          req' = [req EXCEPT ![w] = IdleRequest(400)]
    /\ UNCHANGED <<COMPLAINTS, PROGRESS, artifact>>
    /\ UNCHANGED othersApp

\* Lines 72-83: a PDF is saved and the progress reset to running.
StartPdf(w) ==
    /\ req[w].pc = "idle"
    /\ \E file \in PdfUploads :
          /\ Len(COMPLAINTS) + Pending + Yield(file) <= MaxComplaints
          /\ req' = [req EXCEPT ![w] = [IdleRequest(0) EXCEPT
                        !.pc = "pdf_open", !.ext = file.ext,
                        !.readable = file.readable, !.content = file.content]]
    /\ PROGRESS' = [state |-> "running", total_pages |-> 0, current_page |-> 0,
                    message |-> "Starting PDF analysis...", download_ready |-> FALSE]
    /\ UNCHANGED <<COMPLAINTS, artifact>>
    /\ UNCHANGED othersApp

\* Lines 72-79 and 95, 112: a CSV or Excel file is saved.
StartTabular(w) ==
    /\ req[w].pc = "idle"
    /\ \E file \in TabularUploads :
          /\ Len(COMPLAINTS) + Pending + Yield(file) <= MaxComplaints
          /\ req' = [req EXCEPT ![w] = [IdleRequest(0) EXCEPT
                        !.pc = "map", !.ext = file.ext,
                        !.readable = file.readable, !.content = file.content]]
    /\ UNCHANGED <<COMPLAINTS, PROGRESS, artifact>>
    /\ UNCHANGED othersApp

\* Lines 169-174: an exception anywhere in the handler sets the progress to
\* error and answers 500.
Fail(w) ==
    /\ PROGRESS' = [PROGRESS EXCEPT !.state = "error", !.message = "Error",
                                    !.download_ready = FALSE]
    /\ req' = [req EXCEPT ![w] = IdleRequest(500)]

\* Line 92 into strict_pdf_processor.py lines 66-82: the document is opened.
PdfOpen(w) ==
    /\ req[w].pc = "pdf_open"
    /\ IF ~req[w].readable
       THEN Fail(w)
       ELSE /\ req' = [req EXCEPT ![w] =
                  IF Len(req[w].content) = 0
                  THEN [@ EXCEPT !.pc = "append", !.complaints_data = <<EmptyComplaint>>]
                  ELSE [@ EXCEPT !.pc = "pdf_page", !.total = Len(req[w].content)]]
            /\ UNCHANGED PROGRESS
    /\ UNCHANGED <<COMPLAINTS, artifact>>
    /\ UNCHANGED othersApp

\* strict_pdf_processor.py lines 85-90 with app.py line 87: a page is read and
\* the callback stores the total.
PdfPageTotal(w) ==
    /\ req[w].pc = "pdf_page"
    /\ req[w].k < req[w].total
    /\ PROGRESS' = [PROGRESS EXCEPT !.total_pages = ProgressArgs(req[w].k + 1, req[w].total)[2]]
    /\ req' = [req EXCEPT ![w].pc = "pdf_current"]
    /\ UNCHANGED <<COMPLAINTS, artifact>>
    /\ UNCHANGED othersApp

\* app.py lines 88-89: the callback stores the page and the message.
PdfPageCurrent(w) ==
    /\ req[w].pc = "pdf_current"
    /\ PROGRESS' = [PROGRESS EXCEPT
                        !.current_page = ProgressArgs(req[w].k + 1, req[w].total)[1],
                        !.message = "Analyzing page"]
    /\ req' = [req EXCEPT ![w].pc = "pdf_page", ![w].k = req[w].k + 1]
    /\ UNCHANGED <<COMPLAINTS, artifact>>
    /\ UNCHANGED othersApp

\* strict_pdf_processor.py lines 92-156 and app.py lines 93-94: the fields
\* are extracted; the dictionary has keys, so it is taken.
PdfExtract(w) ==
    /\ req[w].pc = "pdf_page"
    /\ req[w].k = req[w].total
    /\ req' = [req EXCEPT ![w] = [@ EXCEPT !.pc = "append", !.k = 0,
                                     !.complaints_data = <<ProcessPdf(req[w].content)>>]]
    /\ UNCHANGED <<COMPLAINTS, PROGRESS, artifact>>
    /\ UNCHANGED othersApp

\* Lines 95-139: the rows of a CSV or Excel file are mapped; a file without
\* rows is answered 400, one that cannot be read raises.
MapTabular(w) ==
    /\ req[w].pc = "map"
    /\ IF ~req[w].readable
       THEN Fail(w)
       ELSE /\ req' = [req EXCEPT ![w] =
                  IF Len(req[w].content) = 0 THEN IdleRequest(400)
                  ELSE [@ EXCEPT !.pc = "append", !.complaints_data = MapRows(req[w].content)]]
            /\ UNCHANGED PROGRESS
    /\ UNCHANGED <<COMPLAINTS, artifact>>
    /\ UNCHANGED othersApp

\* Mutant: the list is overwritten with the complaints of the upload.
AppendComplaintOverwrites(w) ==
    /\ req[w].pc = "append"
    /\ req[w].k < Len(req[w].complaints_data)
    /\ COMPLAINTS' = Slice(req[w].complaints_data, 1, req[w].k + 1)
    /\ req' = [req EXCEPT ![w].k = req[w].k + 1,
                          ![w].pc = IF req[w].k + 1 = Len(req[w].complaints_data)
                                    THEN "build" ELSE "append"]
    /\ UNCHANGED <<PROGRESS, artifact>>
    /\ UNCHANGED othersApp

\* Lines 142-143: one complaint is appended.
AppendComplaint(w) ==
    /\ req[w].pc = "append"
    /\ req[w].k < Len(req[w].complaints_data)
    /\ COMPLAINTS' = Append(COMPLAINTS, req[w].complaints_data[req[w].k + 1])
    /\ req' = [req EXCEPT ![w].k = req[w].k + 1,
                          ![w].pc = IF req[w].k + 1 = Len(req[w].complaints_data)
                                    THEN "build" ELSE "append"]
    /\ UNCHANGED <<PROGRESS, artifact>>
    /\ UNCHANGED othersApp

\* Line 147 into excel_builder.py lines 84-88: the frame is made of the list
\* as it is now.
BuildFrame(w) ==
    /\ req[w].pc = "build"
    /\ req' = [req EXCEPT ![w].pc = "write", ![w].df = COMPLAINTS]
    /\ UNCHANGED <<COMPLAINTS, PROGRESS, artifact>>
    /\ UNCHANGED othersApp

\* excel_builder.py line 91: the file is written with the Master sheet alone.
WriteMaster(w) ==
    /\ req[w].pc = "write"
    /\ artifact' = [NoWorkbook EXCEPT !.Master = build_master_workbook(req[w].df).Master,
                                      !.saved = TRUE]
    /\ req' = [req EXCEPT ![w].pc = "save"]
    /\ UNCHANGED <<COMPLAINTS, PROGRESS>>
    /\ UNCHANGED othersApp

\* excel_builder.py lines 94-106: the file just written is loaded, the three
\* sheets are added and it is saved.
SaveWorkbook(w) ==
    /\ req[w].pc = "save"
    /\ artifact' = [build_master_workbook(req[w].df) EXCEPT !.Master = artifact.Master]
    /\ req' = [req EXCEPT ![w].pc = "done"]
    /\ UNCHANGED <<COMPLAINTS, PROGRESS>>
    /\ UNCHANGED othersApp

\* excel_builder.py lines 91-106 raising (the file is open elsewhere, the disk
\* is full): the handler's except clause runs.
BuildFails(w) ==
    /\ req[w].pc \in {"write", "save"}
    /\ Fail(w)
    /\ UNCHANGED <<COMPLAINTS, artifact>>
    /\ UNCHANGED othersApp

\* Lines 148-167: the progress is set to completed and 200 is answered.
Complete(w) ==
    /\ req[w].pc = "done"
    /\ PROGRESS' = [PROGRESS EXCEPT !.state = "completed",
                                    !.message = "Excel generated successfully.",
                                    !.download_ready = TRUE]
    /\ req' = [req EXCEPT ![w] = IdleRequest(200)]
    /\ UNCHANGED <<COMPLAINTS, artifact>>
    /\ UNCHANGED othersApp

\* get_progress, lines 177-180: the progress dictionary is answered as it is.
GetProgress(w) ==
    /\ req[w].pc = "idle"
    /\ req' = [req EXCEPT ![w] = IdleRequest(200)]
    /\ UNCHANGED <<COMPLAINTS, PROGRESS, artifact>>
    /\ UNCHANGED othersApp

\* download_master_file, lines 183-192: the workbook is sent, 404 when there
\* is no file.
DownloadMaster(w) ==
    /\ req[w].pc = "idle"
    /\ req' = [req EXCEPT ![w] = IdleRequest(IF artifact.saved THEN 200 ELSE 404)]
    /\ UNCHANGED <<COMPLAINTS, PROGRESS, artifact>>
    /\ UNCHANGED othersApp

NextApp ==
    \E w \in Workers :
        \/ RejectUpload(w)
        \/ StartPdf(w)
        \/ StartTabular(w)
        \/ PdfOpen(w)
        \/ PdfPageTotal(w)
        \/ PdfPageCurrent(w)
        \/ PdfExtract(w)
        \/ MapTabular(w)
        \/ AppendComplaint(w)
        \/ BuildFrame(w)
        \/ WriteMaster(w)
        \/ SaveWorkbook(w)
        \/ BuildFails(w)
        \/ Complete(w)
        \/ GetProgress(w)
        \/ DownloadMaster(w)

SpecApp == InitApp /\ [][NextApp]_vars

\* ---------------------------------------------------------------- C5
\* The record a row of a CSV or Excel file stands for: the value of every
\* column that the file has and the row fills, '' for every other field.
RecordOfRow(row) ==
    [c \in RequiredSet |->
        IF c \in DOMAIN row /\ row[c] # NaN
        THEN IF c = "Amount_Lost" THEN row[c] ELSE strip(row[c])
        ELSE << >>]

\* The record a PDF stands for: the value of every field one of whose labels
\* occurs in the text of its pages, '' for every other field.
RecordOfPdf(pages) ==
    LET combined == JoinLines([k \in 1..Len(pages) |-> PageText(pages[k])])
    IN  [c \in RequiredSet |->
            IF \E k \in 1..Len(FieldPatterns(c)) : MatchesAnywhere(combined, FieldPatterns(c)[k])
            THEN ExtractComplaint(combined)[c]
            ELSE << >>]

\* C5: every record of COMPLAINTS, whichever upload it came from, has the
\* eleven canonical keys, no null field, and '' in every field that its PDF
\* (one without pages included) or its row did not give a value for.
C5_RecordsCanonical ==
    \A i \in 1..Len(COMPLAINTS) :
        LET r == COMPLAINTS[i]
        IN  /\ DOMAIN r = RequiredSet
            /\ \A c \in RequiredSet : r[c] # NaN
            /\ \/ \E f \in PdfUploads : f.readable /\ r = RecordOfPdf(f.content)
               \/ \E f \in TabularUploads :
                     \E k \in 1..Len(f.content) : r = RecordOfRow(f.content[k])

\* ---------------------------------------------------------------- C12
\* No thread is serving an upload.
NoUploadInProgress == \A w \in Workers : req[w].pc = "idle"

\* C12: whenever no upload is in progress and the list holds the records of
\* at least one accepted upload, the workbook on disk is the full rebuild of
\* the list as it is now: Master has the records of COMPLAINTS in order and
\* the other sheets are those built from them.  Appending the records and
\* rebuilding the workbook act as one step, whatever uploads overlap and
\* whichever build fails.
C12_ArtifactIsRebuildOfAccumulation ==
    (NoUploadInProgress /\ COMPLAINTS # << >>) =>
        /\ artifact.saved
        /\ artifact = build_master_workbook(COMPLAINTS)

\* ---------------------------------------------------------------- C13
\* s is the beginning of t.
IsPrefix(s, t) == Len(s) <= Len(t) /\ Slice(t, 1, Len(s)) = s

\* C13: in every step COMPLAINTS as it was stays the beginning of COMPLAINTS
\* as it becomes: records are only added at the end, never edited, removed or
\* reordered.  The steps of build_master_workbook leave the list as it is,
\* and so does every step that ends a request (a rejected upload, an upload
\* without records, a failed one, a completed one, a progress poll, a
\* download).
C13_AccumulationAppendOnly ==
    [][ /\ IsPrefix(COMPLAINTS, COMPLAINTS')
        /\ \A w \in Workers :
              (req[w].pc \in {"build", "write", "save"} /\ req'[w] # req[w])
                  => COMPLAINTS' = COMPLAINTS
        /\ \A w \in Workers :
              (req'[w].pc = "idle" /\ req'[w] # req[w])
                  => COMPLAINTS' = COMPLAINTS ]_vars

\* Two uploads have added their records and the workbook has been built of
\* both, and another request was refused or has failed.
C13_Witness ==
    /\ Len(COMPLAINTS) >= 2
    /\ artifact.saved
    /\ Len(artifact.Master) = Len(COMPLAINTS)
    /\ \E w \in Workers : req[w].pc = "idle" /\ req[w].status \in {400, 500}

\* ---------------------------------------------------------------- C14
\* Worker w ends a request with the response code in the step.
Answers(w, code) == req[w].pc # "idle" /\ req'[w] = IdleRequest(code)

\* The moves of PROGRESS['state']: it is running from the start of a PDF
\* upload, completed from the success of an upload and error from the failure
\* of one, reached from running or, for an upload that is not a PDF,
\* from the state the upload found; it never goes back to idle.
StateMoves ==
    PROGRESS'.state # PROGRESS.state =>
        \/ /\ PROGRESS'.state = "running"
           /\ \E w \in Workers : req[w].pc = "idle" /\ req'[w].pc = "pdf_open"
        \/ /\ PROGRESS'.state = "completed"
           /\ \E w \in Workers : Answers(w, 200)
        \/ /\ PROGRESS'.state = "error"
           /\ \E w \in Workers : Answers(w, 500)

\* PROGRESS is as it was after a request is refused with 400.
RejectedLeavesProgress ==
    (\E w \in Workers : req'[w] # req[w] /\ req'[w] = IdleRequest(400))
        => PROGRESS' = PROGRESS

\* C14: in every state of PROGRESS download_ready is true only when state is
\* completed and current_page is at most total_pages; state moves only from
\* idle to running to completed or error (or straight to completed or error
\* for an upload that is not a PDF), and an upload refused with 400 leaves
\* PROGRESS as it was.
C14_ProgressConsistent ==
    /\ [](PROGRESS.download_ready => PROGRESS.state = "completed")
    /\ [](PROGRESS.current_page <= PROGRESS.total_pages)
    /\ [][StateMoves /\ RejectedLeavesProgress]_vars

====
